---- MODULE Spec2Model ----
(***************************************************************************)
(* Model of arm_compute/core/Validate.h: the precondition validators of    *)
(* the compute library.  A caller invokes one validator at a time; the     *)
(* validator reads operand metadata through ITensor::info(), and either    *)
(* returns or hands a failure to the error reporter, which never returns.  *)
(* Every validator is one action; the order of its metadata reads, pointer *)
(* tests and its report is recorded in `trace`.                            *)
(* The build modelled is the one with assertions enabled.                  *)
(***************************************************************************)
EXTENDS Integers, Sequences, FiniteSets, TLC

VARIABLES fn,      \* the validator invoked by the caller ("none": in the caller)
          args,    \* the arguments of the invocation
          status,  \* "idle" | "returned" | "reported" | "crashed"
          trace,   \* the pointer tests, metadata reads and report, in order
          ret      \* return value of a value-returning function

vars == <<fn, args, status, trace, ret>>

----------------------------------------------------------------------------
(* Bounds of the model *)

num_max_dimensions == 3     \* Dimensions<T>::num_max_dimensions
MaxDimSize == 2             \* largest size of one axis
MaxTensors == 3             \* longest operand list
MaxFurther == 2             \* longest list of further allowed candidates
MaxFixedPointPosition == 4  \* largest fixed-point position
MaxChannels == 2            \* largest channel count
WindowDims == 2             \* axes of a window

----------------------------------------------------------------------------
(* Values *)

RECURSIVE Pow2(_)
Pow2(n) == IF n <= 0 THEN 1 ELSE 2 * Pow2(n - 1)

SeqsUpTo(S, lo, hi) == UNION {[1..n -> S] : n \in lo..hi}

DataTypes == {"UNKNOWN", "U8", "QS8", "QS16", "F32"}
Formats == {"UNKNOWN", "U8", "RGB888", "NV12"}

DimSizes == 1..MaxDimSize
Shapes == [1..num_max_dimensions -> DimSizes]
UnitShape == [i \in 1..num_max_dimensions |-> 1]

\* The metadata ITensor::info() exposes.
DefaultInfo ==
  [tensor_shape |-> UnitShape, data_type |-> "U8", fixed_point_position |-> 0,
   num_channels |-> 1, format |-> "U8"]

\* A pointer is nullptr or the address of an object with metadata.
nullptr == <<>>
AddressOf(info) == <<info>>
PointersTo(infos) == {nullptr} \cup {AddressOf(x) : x \in infos}

\* A float: (-1)^neg * m * 2^e with m < 2^24.
Float(neg, m, e) == [neg |-> neg, m |-> m, e |-> e]
FloatZero == Float(FALSE, 0, 0)

NoArgs ==
  [tensors |-> <<>>, upper_dim |-> 0, dims |-> <<>>, first |-> "UNKNOWN",
   further |-> <<>>, num_channels |-> 0, value |-> FloatZero,
   windows |-> <<>>]

\* What a dereference of a null pointer does in this run: the process
\* faults, or the read yields the metadata of whatever lies at address 0.
UndefinedOutcomes(infos) == [crash : BOOLEAN, info : infos]
NoUndefined == [crash |-> TRUE, info |-> DefaultInfo]

----------------------------------------------------------------------------
(* The execution of one validator: e = [status, trace] *)

Running == [status |-> "running", trace |-> <<>>]

Log(e, ev) == [e EXCEPT !.trace = Append(@, ev)]

\* arm_compute::error: reports the failure and does not return.
error(e, msg) ==
  [status |-> "reported", trace |-> Append(e.trace, <<"report", 0, msg>>)]

\* ARM_COMPUTE_ERROR_ON_LOC / ARM_COMPUTE_ERROR_ON_LOC_MSG
ERROR_ON_LOC_MSG(e, cond, msg) ==
  IF e.status = "running" /\ cond THEN error(e, msg) ELSE e

\* tensor->info()->field()
Deref(e, ptrs, i, field, ub) ==
  IF e.status # "running" THEN [e |-> e, v |-> ub.info[field]]
  ELSE IF ptrs[i] = nullptr
  THEN [e |-> [status |-> IF ub.crash THEN "crashed" ELSE "running",
               trace |-> Append(e.trace, <<"read", i, field>>)],
        v |-> ub.info[field]]
  ELSE [e |-> Log(e, <<"read", i, field>>), v |-> ptrs[i][1][field]]

Finish(e) == IF e.status = "running" THEN "returned" ELSE e.status

HasNull(ptrs) == \E i \in 1..Len(ptrs) : ptrs[i] = nullptr

Oracles(ptrs, infos) ==
  IF HasNull(ptrs) THEN UndefinedOutcomes(infos) ELSE {NoUndefined}

----------------------------------------------------------------------------
(* detail::have_different_dimensions *)

RECURSIVE have_different_dimensions_loop(_, _, _)
have_different_dimensions_loop(dim1, dim2, i) ==
  IF i < num_max_dimensions
  THEN IF dim1[i + 1] # dim2[i + 1]
       THEN TRUE
       ELSE have_different_dimensions_loop(dim1, dim2, i + 1)
  ELSE FALSE

RECURSIVE have_larger_dimensions_loop(_, _, _)
have_larger_dimensions_loop(dim1, dim2, i) ==
  IF i < num_max_dimensions
  THEN IF dim1[i + 1] > dim2[i + 1]
       THEN TRUE
       ELSE have_larger_dimensions_loop(dim1, dim2, i + 1)
  ELSE FALSE

have_different_dimensions_larger_only(dim1, dim2, upper_dim) ==
  have_larger_dimensions_loop(dim1, dim2, upper_dim)

have_different_dimensions_all_axes(dim1, dim2, upper_dim) ==
  have_different_dimensions_loop(dim1, dim2, 0)

have_different_dimensions(dim1, dim2, upper_dim) ==
  have_different_dimensions_loop(dim1, dim2, upper_dim)

UpperDims == 0..(num_max_dimensions + 1)

Call_have_different_dimensions ==
  /\ status = "idle"
  /\ \E dim1 \in Shapes, dim2 \in Shapes, upper_dim \in UpperDims :
       /\ fn' = "have_different_dimensions"
       /\ args' = [NoArgs EXCEPT !.dims = <<dim1, dim2>>, !.upper_dim = upper_dim]
       /\ ret' = have_different_dimensions(dim1, dim2, upper_dim)
       /\ status' = "returned"
       /\ trace' = <<>>

----------------------------------------------------------------------------
(* error_on_nullptr *)

\* for_each(is_nullptr, pointers...): the functor is applied to each
\* argument in order.
RECURSIVE for_each_is_nullptr(_, _, _)
for_each_is_nullptr(e, pointers, i) ==
  IF e.status # "running" \/ i > Len(pointers) THEN e
  ELSE for_each_is_nullptr(
         ERROR_ON_LOC_MSG(Log(e, <<"test", i, "nullptr">>),
                          pointers[i] = nullptr, "ptr == nullptr"),
         pointers, i + 1)

error_on_nullptr_skip_first(pointers) == for_each_is_nullptr(Running, pointers, 2)

error_on_nullptr(pointers) == for_each_is_nullptr(Running, pointers, 1)

Call_error_on_nullptr ==
  /\ status = "idle"
  /\ \E pointers \in SeqsUpTo(PointersTo({DefaultInfo}), 1, MaxTensors + 2) :
       LET e == error_on_nullptr(pointers) IN
       /\ fn' = "error_on_nullptr"
       /\ args' = [NoArgs EXCEPT !.tensors = pointers]
       /\ status' = Finish(e)
       /\ trace' = e.trace
       /\ ret' = FALSE

----------------------------------------------------------------------------
(* error_on_mismatching_shapes *)

\* The shapes of the operands: unit shapes with at most one larger axis.
OperandShapes ==
  {[UnitShape EXCEPT ![i] = d] : i \in 1..num_max_dimensions, d \in DimSizes}
ShapeInfos == {[DefaultInfo EXCEPT !.tensor_shape = s] : s \in OperandShapes}

\* tensors_array.cbegin() == nullptr: the iterator of a std::array of two
\* or more elements is the address of its first element, never null.
cbegin_is_nullptr(tensors_array) == FALSE

\* std::any_of(std::next(tensors_array.cbegin()), tensors_array.cend(), ...)
RECURSIVE shapes_any_of(_, _, _, _, _)
shapes_any_of(e, tensors_array, upper_dim, k, ub) ==
  IF e.status # "running" \/ k > Len(tensors_array) THEN [e |-> e, v |-> FALSE]
  ELSE IF tensors_array[k] = nullptr
  THEN [e |-> error(e, "tensor == nullptr"), v |-> FALSE]
  ELSE LET first == Deref(e, tensors_array, 1, "tensor_shape", ub)
           other == Deref(first.e, tensors_array, k, "tensor_shape", ub)
       IN  IF other.e.status # "running" THEN [e |-> other.e, v |-> FALSE]
           ELSE IF have_different_dimensions(first.v, other.v, upper_dim)
           THEN [e |-> other.e, v |-> TRUE]
           ELSE shapes_any_of(other.e, tensors_array, upper_dim, k + 1, ub)

error_on_mismatching_shapes_from_third(upper_dim, tensors_array, ub) ==
  LET e1 == ERROR_ON_LOC_MSG(Running, cbegin_is_nullptr(tensors_array),
                             "tensors_array.cbegin() == nullptr")
      r  == shapes_any_of(e1, tensors_array, upper_dim, 3, ub)
  IN  ERROR_ON_LOC_MSG(r.e, r.v, "Tensors have different shapes")

error_on_mismatching_shapes(upper_dim, tensors_array, ub) ==
  LET e1 == ERROR_ON_LOC_MSG(Running, cbegin_is_nullptr(tensors_array),
                             "tensors_array.cbegin() == nullptr")
      r  == shapes_any_of(e1, tensors_array, upper_dim, 2, ub)
  IN  ERROR_ON_LOC_MSG(r.e, r.v, "Tensors have different shapes")

\* The overload without upper_dim forwards 0U.
error_on_mismatching_shapes_default(tensors_array, ub) ==
  error_on_mismatching_shapes(0, tensors_array, ub)

Call_error_on_mismatching_shapes ==
  /\ status = "idle"
  /\ \E tensors \in SeqsUpTo(PointersTo(ShapeInfos), 2, MaxTensors),
        upper_dim \in UpperDims :
       \E ub \in Oracles(tensors, ShapeInfos) :
         LET e == error_on_mismatching_shapes(upper_dim, tensors, ub) IN
         /\ fn' = "error_on_mismatching_shapes"
         /\ args' = [NoArgs EXCEPT !.tensors = tensors, !.upper_dim = upper_dim]
         /\ status' = Finish(e)
         /\ trace' = e.trace
         /\ ret' = FALSE

Call_error_on_mismatching_shapes_default ==
  /\ status = "idle"
  /\ \E tensors \in SeqsUpTo(PointersTo(ShapeInfos), 2, MaxTensors) :
       \E ub \in Oracles(tensors, ShapeInfos) :
         LET e == error_on_mismatching_shapes_default(tensors, ub) IN
         /\ fn' = "error_on_mismatching_shapes_default"
         /\ args' = [NoArgs EXCEPT !.tensors = tensors]
         /\ status' = Finish(e)
         /\ trace' = e.trace
         /\ ret' = FALSE

----------------------------------------------------------------------------
(* error_on_mismatching_data_types *)

TypeInfos == {[DefaultInfo EXCEPT !.data_type = d] : d \in DataTypes}

\* std::any_of(first, last, [&](tensor) { return tensor->info()->field() != ref; })
RECURSIVE field_any_of(_, _, _, _, _, _)
field_any_of(e, tensors, field, ref, k, ub) ==
  IF e.status # "running" \/ k > Len(tensors) THEN [e |-> e, v |-> FALSE]
  ELSE LET r == Deref(e, tensors, k, field, ub)
       IN  IF r.e.status # "running" THEN [e |-> r.e, v |-> FALSE]
           ELSE IF r.v # ref THEN [e |-> r.e, v |-> TRUE]
           ELSE field_any_of(r.e, tensors, field, ref, k + 1, ub)

error_on_mismatching_data_types_second_only(tensors, ub) ==
  LET first_data_type == Deref(Running, tensors, 1, "data_type", ub)
      second == Deref(first_data_type.e, tensors, 2, "data_type", ub)
  IN  ERROR_ON_LOC_MSG(second.e, second.v # first_data_type.v,
                       "Tensors have different data types")

\* tensor_2 is compared first, then `||` evaluates any_of over the rest.
error_on_mismatching_data_types(tensors, ub) ==
  LET first_data_type == Deref(Running, tensors, 1, "data_type", ub)
      second == Deref(first_data_type.e, tensors, 2, "data_type", ub)
      rest   == IF second.e.status = "running" /\ second.v # first_data_type.v
                THEN [e |-> second.e, v |-> TRUE]
                ELSE field_any_of(second.e, tensors, "data_type",
                                  first_data_type.v, 3, ub)
  IN  ERROR_ON_LOC_MSG(rest.e, rest.v, "Tensors have different data types")

Call_error_on_mismatching_data_types ==
  /\ status = "idle"
  /\ \E tensors \in SeqsUpTo(PointersTo(TypeInfos), 2, MaxTensors) :
       \E ub \in Oracles(tensors, TypeInfos) :
         LET e == error_on_mismatching_data_types(tensors, ub) IN
         /\ fn' = "error_on_mismatching_data_types"
         /\ args' = [NoArgs EXCEPT !.tensors = tensors]
         /\ status' = Finish(e)
         /\ trace' = e.trace
         /\ ret' = FALSE

----------------------------------------------------------------------------
(* error_on_mismatching_fixed_point, error_on_mismatching_fixed_point_position *)

MismatchPositions == {0, MaxFixedPointPosition}
FixedPointInfos ==
  {[DefaultInfo EXCEPT !.data_type = d, !.fixed_point_position = p] :
     d \in DataTypes, p \in MismatchPositions}

error_on_mismatching_fixed_point_no_short_circuit(tensors, ub) ==
  LET first_data_type == Deref(Running, tensors, 1, "data_type", ub)
      first_fixed_point_position ==
        Deref(first_data_type.e, tensors, 1, "fixed_point_position", ub)
      types == field_any_of(first_fixed_point_position.e, tensors,
                            "data_type", first_data_type.v, 2, ub)
      e1 == ERROR_ON_LOC_MSG(types.e, types.v,
                             "Tensors have different fixed point data types")
      positions == field_any_of(e1, tensors, "fixed_point_position",
                                first_fixed_point_position.v, 2, ub)
  IN  ERROR_ON_LOC_MSG(positions.e, positions.v,
                       "Tensors have different fixed point positions")

error_on_mismatching_fixed_point_positions_first(tensors, ub) ==
  LET first_data_type == Deref(Running, tensors, 1, "data_type", ub)
      first_fixed_point_position ==
        Deref(first_data_type.e, tensors, 1, "fixed_point_position", ub)
  IN  IF first_fixed_point_position.e.status # "running"
      THEN first_fixed_point_position.e
      ELSE IF first_data_type.v # "QS8" /\ first_data_type.v # "QS16"
      THEN first_fixed_point_position.e
      ELSE LET positions == field_any_of(first_fixed_point_position.e, tensors,
                                         "fixed_point_position",
                                         first_fixed_point_position.v, 2, ub)
               e1 == ERROR_ON_LOC_MSG(positions.e, positions.v,
                                      "Tensors have different fixed point positions")
               types == field_any_of(e1, tensors, "data_type",
                                     first_data_type.v, 2, ub)
           IN  ERROR_ON_LOC_MSG(types.e, types.v,
                                "Tensors have different fixed point data types")

error_on_mismatching_fixed_point_types_only(tensors, ub) ==
  LET first_data_type == Deref(Running, tensors, 1, "data_type", ub)
      first_fixed_point_position ==
        Deref(first_data_type.e, tensors, 1, "fixed_point_position", ub)
  IN  IF first_fixed_point_position.e.status # "running"
      THEN first_fixed_point_position.e
      ELSE IF first_data_type.v # "QS8" /\ first_data_type.v # "QS16"
      THEN first_fixed_point_position.e
      ELSE LET types == field_any_of(first_fixed_point_position.e, tensors,
                                     "data_type", first_data_type.v, 2, ub)
           IN  ERROR_ON_LOC_MSG(types.e, types.v,
                                "Tensors have different fixed point data types")

error_on_mismatching_fixed_point(tensors, ub) ==
  LET first_data_type == Deref(Running, tensors, 1, "data_type", ub)
      first_fixed_point_position ==
        Deref(first_data_type.e, tensors, 1, "fixed_point_position", ub)
  IN  IF first_fixed_point_position.e.status # "running"
      THEN first_fixed_point_position.e
      ELSE IF first_data_type.v # "QS8" /\ first_data_type.v # "QS16"
      THEN first_fixed_point_position.e
      ELSE LET types == field_any_of(first_fixed_point_position.e, tensors,
                                     "data_type", first_data_type.v, 2, ub)
               e1 == ERROR_ON_LOC_MSG(types.e, types.v,
                                      "Tensors have different fixed point data types")
               positions == field_any_of(e1, tensors, "fixed_point_position",
                                         first_fixed_point_position.v, 2, ub)
           IN  ERROR_ON_LOC_MSG(positions.e, positions.v,
                                "Tensors have different fixed point positions")

Call_error_on_mismatching_fixed_point ==
  /\ status = "idle"
  /\ \E tensors \in SeqsUpTo(PointersTo(FixedPointInfos), 2, MaxTensors) :
       \E ub \in Oracles(tensors, FixedPointInfos) :
         LET e == error_on_mismatching_fixed_point(tensors, ub) IN
         /\ fn' = "error_on_mismatching_fixed_point"
         /\ args' = [NoArgs EXCEPT !.tensors = tensors]
         /\ status' = Finish(e)
         /\ trace' = e.trace
         /\ ret' = FALSE

\* The lambda reads the operand's position, then tensor_1's, at every operand.
RECURSIVE position_any_of(_, _, _, _)
position_any_of(e, tensors, k, ub) ==
  IF e.status # "running" \/ k > Len(tensors) THEN [e |-> e, v |-> FALSE]
  ELSE LET other == Deref(e, tensors, k, "fixed_point_position", ub)
           first == Deref(other.e, tensors, 1, "fixed_point_position", ub)
       IN  IF first.e.status # "running" THEN [e |-> first.e, v |-> FALSE]
           ELSE IF other.v # first.v THEN [e |-> first.e, v |-> TRUE]
           ELSE position_any_of(first.e, tensors, k + 1, ub)

error_on_mismatching_fixed_point_position_quantized_only(tensors, ub) ==
  IF tensors[1] # nullptr /\ tensors[1][1].data_type \notin {"QS8", "QS16"}
  THEN Running
  ELSE LET r == position_any_of(Running, tensors, 2, ub)
       IN  ERROR_ON_LOC_MSG(r.e, r.v, "Tensors have different fixed-point positions")

error_on_mismatching_fixed_point_position(tensors, ub) ==
  LET r == position_any_of(Running, tensors, 2, ub)
  IN  ERROR_ON_LOC_MSG(r.e, r.v, "Tensors have different fixed-point positions")

Call_error_on_mismatching_fixed_point_position ==
  /\ status = "idle"
  /\ \E tensors \in SeqsUpTo(PointersTo(FixedPointInfos), 2, MaxTensors) :
       \E ub \in Oracles(tensors, FixedPointInfos) :
         LET e == error_on_mismatching_fixed_point_position(tensors, ub) IN
         /\ fn' = "error_on_mismatching_fixed_point_position"
         /\ args' = [NoArgs EXCEPT !.tensors = tensors]
         /\ status' = Finish(e)
         /\ trace' = e.trace
         /\ ret' = FALSE

----------------------------------------------------------------------------
(* error_on_format_not_in, error_on_data_type_not_in,
   error_on_data_type_channel_not_in *)

\* std::none_of(array.begin(), array.end(), [&](x) { return x == value; })
RECURSIVE none_of_equal(_, _, _)
none_of_equal(array, value, k) ==
  IF k > Len(array) THEN TRUE
  ELSE IF array[k] = value THEN FALSE
  ELSE none_of_equal(array, value, k + 1)

FormatInfos == {[DefaultInfo EXCEPT !.format = f] : f \in Formats}

error_on_format_not_in_unknown_listed(object, format, formats) ==
  LET e1 == ERROR_ON_LOC_MSG(Running, object = nullptr, "object == nullptr")
      object_format == Deref(e1, <<object>>, 1, "format", NoUndefined)
  IN  ERROR_ON_LOC_MSG(object_format.e,
                       object_format.v # format
                         /\ none_of_equal(formats, object_format.v, 1),
                       "Format %s not supported by this kernel")

error_on_format_not_in(object, format, formats) ==
  LET e1 == ERROR_ON_LOC_MSG(Running, object = nullptr, "object == nullptr")
      object_format == Deref(e1, <<object>>, 1, "format", NoUndefined)
      e2 == ERROR_ON_LOC_MSG(object_format.e, object_format.v = "UNKNOWN",
                             "object_format == Format::UNKNOWN")
  IN  ERROR_ON_LOC_MSG(e2,
                       object_format.v # format
                         /\ none_of_equal(formats, object_format.v, 1),
                       "Format %s not supported by this kernel")

Call_error_on_format_not_in ==
  /\ status = "idle"
  /\ \E object \in PointersTo(FormatInfos), format \in Formats,
        formats \in SeqsUpTo(Formats, 0, MaxFurther) :
       LET e == error_on_format_not_in(object, format, formats) IN
       /\ fn' = "error_on_format_not_in"
       /\ args' = [NoArgs EXCEPT !.tensors = <<object>>, !.first = format,
                                 !.further = formats]
       /\ status' = Finish(e)
       /\ trace' = e.trace
       /\ ret' = FALSE

error_on_data_type_not_in_first_only(tensor, dt, dts) ==
  LET e1 == ERROR_ON_LOC_MSG(Running, tensor = nullptr, "tensor == nullptr")
      tensor_dt == Deref(e1, <<tensor>>, 1, "data_type", NoUndefined)
      e2 == ERROR_ON_LOC_MSG(tensor_dt.e, tensor_dt.v = "UNKNOWN",
                             "tensor_dt == DataType::UNKNOWN")
  IN  ERROR_ON_LOC_MSG(e2, tensor_dt.v # dt,
                       "ITensor data type %s not supported by this kernel")

error_on_data_type_not_in(tensor, dt, dts) ==
  LET e1 == ERROR_ON_LOC_MSG(Running, tensor = nullptr, "tensor == nullptr")
      tensor_dt == Deref(e1, <<tensor>>, 1, "data_type", NoUndefined)
      e2 == ERROR_ON_LOC_MSG(tensor_dt.e, tensor_dt.v = "UNKNOWN",
                             "tensor_dt == DataType::UNKNOWN")
  IN  ERROR_ON_LOC_MSG(e2,
                       tensor_dt.v # dt /\ none_of_equal(dts, tensor_dt.v, 1),
                       "ITensor data type %s not supported by this kernel")

Call_error_on_data_type_not_in ==
  /\ status = "idle"
  /\ \E tensor \in PointersTo(TypeInfos), dt \in DataTypes,
        dts \in SeqsUpTo(DataTypes, 0, MaxFurther) :
       LET e == error_on_data_type_not_in(tensor, dt, dts) IN
       /\ fn' = "error_on_data_type_not_in"
       /\ args' = [NoArgs EXCEPT !.tensors = <<tensor>>, !.first = dt,
                                 !.further = dts]
       /\ status' = Finish(e)
       /\ trace' = e.trace
       /\ ret' = FALSE

ChannelInfos ==
  {[DefaultInfo EXCEPT !.data_type = d, !.num_channels = c] :
     d \in DataTypes, c \in 1..MaxChannels}

error_on_data_type_channel_not_in_channels_first(tensor, num_channels, dt, dts) ==
  LET e0 == ERROR_ON_LOC_MSG(Running, tensor = nullptr, "tensor == nullptr")
      tensor_nc == Deref(e0, <<tensor>>, 1, "num_channels", NoUndefined)
      e1 == ERROR_ON_LOC_MSG(tensor_nc.e, tensor_nc.v # num_channels,
                             "Number of channels %d. Required number of channels %d")
      e2 == error_on_data_type_not_in(tensor, dt, dts)
  IN  IF e1.status # "running" THEN e1
      ELSE [status |-> e2.status, trace |-> e1.trace \o e2.trace]

error_on_data_type_channel_not_in(tensor, num_channels, dt, dts) ==
  LET e1 == error_on_data_type_not_in(tensor, dt, dts)
      tensor_nc == Deref(e1, <<tensor>>, 1, "num_channels", NoUndefined)
  IN  ERROR_ON_LOC_MSG(tensor_nc.e, tensor_nc.v # num_channels,
                       "Number of channels %d. Required number of channels %d")

Call_error_on_data_type_channel_not_in ==
  /\ status = "idle"
  /\ \E tensor \in PointersTo(ChannelInfos), num_channels \in 0..MaxChannels,
        dt \in DataTypes, dts \in SeqsUpTo(DataTypes, 0, MaxFurther) :
       LET e == error_on_data_type_channel_not_in(tensor, num_channels, dt, dts) IN
       /\ fn' = "error_on_data_type_channel_not_in"
       /\ args' = [NoArgs EXCEPT !.tensors = <<tensor>>, !.first = dt,
                                 !.further = dts, !.num_channels = num_channels]
       /\ status' = Finish(e)
       /\ trace' = e.trace
       /\ ret' = FALSE

----------------------------------------------------------------------------
(* error_on_value_not_representable_in_fixed_point *)

RECURSIVE BitLen(_)
BitLen(n) == IF n = 0 THEN 0 ELSE 1 + BitLen(n \div 2)

Min(a, b) == IF a <= b THEN a ELSE b

\* unsigned int: 32 bits, held as <<high 16 bits, low 16 bits>>.
UInt32(hi, lo) == <<hi, lo>>
AllOnes32 == UInt32(65535, 65535)     \* 0xFFFFFFFFu
SizeofUnsignedInt == 4

\* x >> k for 0 <= k < 32
ShiftRight32(x, k) ==
  IF k >= 16
  THEN UInt32(0, x[1] \div Pow2(k - 16))
  ELSE UInt32(x[1] \div Pow2(k),
              (x[1] % Pow2(k)) * Pow2(16 - k) + x[2] \div Pow2(k))

\* Conversion of an unsigned int to float: 24 significant bits, round to
\* nearest, ties to even.
UIntToFloat(x) ==
  IF x[1] < 256
  THEN Float(FALSE, x[1] * 65536 + x[2], 0)
  ELSE LET d      == BitLen(x[1]) - 8
           kept   == x[1] * Pow2(16 - d) + x[2] \div Pow2(d)
           rem    == x[2] % Pow2(d)
           half   == Pow2(d - 1)
           up     == rem > half \/ (rem = half /\ kept % 2 = 1)
       IN  Float(FALSE, IF up THEN kept + 1 ELSE kept, d)

\* f / static_cast<float>(1 << p): division by a power of two is exact.
FloatDivPow2(f, p) == [f EXCEPT !.e = @ - p]

MagnitudeGreater(a, b) ==
  IF a.m = 0 THEN FALSE
  ELSE IF b.m = 0 THEN TRUE
  ELSE LET la == BitLen(a.m) + a.e
           lb == BitLen(b.m) + b.e
           lo == Min(a.e, b.e)
       IN  IF la # lb THEN la > lb
           ELSE a.m * Pow2(a.e - lo) > b.m * Pow2(b.e - lo)

\* a > b on floats
FloatGreater(a, b) ==
  IF a.neg /\ ~b.neg THEN FALSE
  ELSE IF ~a.neg /\ b.neg THEN a.m # 0 \/ b.m # 0
  ELSE IF a.neg THEN MagnitudeGreater(b, a)
  ELSE MagnitudeGreater(a, b)

\* Utils.h: bytes of one element of the data type.
element_size_from_data_type(dt) ==
  CASE dt \in {"U8", "QS8"} -> 1
    [] dt = "QS16" -> 2
    [] dt = "F32" -> 4

SizedDataTypes == {"U8", "QS8", "QS16", "F32"}
QuantizedInfos ==
  {[DefaultInfo EXCEPT !.data_type = d, !.fixed_point_position = p] :
     d \in SizedDataTypes, p \in 0..MaxFixedPointPosition}

q_max_range_of(dt) ==
  ShiftRight32(AllOnes32,
               ((SizeofUnsignedInt - element_size_from_data_type(dt)) * 8) + 1)

max_range_of(dt, fixed_point_position) ==
  FloatDivPow2(UIntToFloat(q_max_range_of(dt)), fixed_point_position)

error_on_value_not_representable_in_fixed_point_magnitude(value, tensor, ub) ==
  LET fixed_point_position ==
        Deref(Running, <<tensor>>, 1, "fixed_point_position", ub)
      dt == Deref(fixed_point_position.e, <<tensor>>, 1, "data_type", ub)
  IN  IF dt.e.status # "running" THEN dt.e
      ELSE ERROR_ON_LOC_MSG(dt.e,
             FloatGreater([value EXCEPT !.neg = FALSE],
                          max_range_of(dt.v, fixed_point_position.v)),
             "Value %f is not representable in %s with fixed-point position %d")

error_on_value_not_representable_in_fixed_point(value, tensor, ub) ==
  LET fixed_point_position ==
        Deref(Running, <<tensor>>, 1, "fixed_point_position", ub)
      dt == Deref(fixed_point_position.e, <<tensor>>, 1, "data_type", ub)
  IN  IF dt.e.status # "running" THEN dt.e
      ELSE ERROR_ON_LOC_MSG(dt.e,
             FloatGreater(value, max_range_of(dt.v, fixed_point_position.v)),
             "Value %f is not representable in %s with fixed-point position %d")

Mantissas == {0, 1, 127, 32767, 16777215, 16567501}
Exponents ==
  {k - p : k \in {0, 3, 7, 15, 31}, p \in 0..MaxFixedPointPosition} \cup {-21}
FloatValues ==
  {Float(neg, m, e) : neg \in BOOLEAN, m \in Mantissas, e \in Exponents}

Call_error_on_value_not_representable_in_fixed_point ==
  /\ status = "idle"
  /\ \E value \in FloatValues, tensor \in PointersTo(QuantizedInfos) :
       \E ub \in Oracles(<<tensor>>, QuantizedInfos) :
         LET e == error_on_value_not_representable_in_fixed_point(value, tensor, ub) IN
         /\ fn' = "error_on_value_not_representable_in_fixed_point"
         /\ args' = [NoArgs EXCEPT !.tensors = <<tensor>>, !.value = value]
         /\ status' = Finish(e)
         /\ trace' = e.trace
         /\ ret' = FALSE

----------------------------------------------------------------------------
(* error_on_invalid_subwindow *)

\* One axis of a Window.
Dimension(start, end, step) == [start |-> start, end |-> end, step |-> step]
DefaultDimension == Dimension(0, 1, 1)

FullDimensions ==
  {Dimension(0, 10, 1), Dimension(0, 10, 2), Dimension(2, 8, 1), DefaultDimension}
SubDimensions ==
  {Dimension(start, end, step) :
     start \in {0, 2}, end \in {1, 8, 10, 12}, step \in {1, 2}}
FullWindows == [1..WindowDims -> FullDimensions]
SubWindows == [1..WindowDims -> SubDimensions]

\* The window's own validity predicate: on every axis end >= start and the
\* step evenly fits the range.
is_valid(win) ==
  \A i \in 1..WindowDims :
    /\ win[i].step # 0
    /\ win[i].end >= win[i].start
    /\ (win[i].end - win[i].start) % win[i].step = 0

RECURSIVE subwindow_axes(_, _, _, _)
subwindow_axes(e, full, sub, i) ==
  IF e.status # "running" \/ i > WindowDims THEN e
  ELSE LET e1 == ERROR_ON_LOC_MSG(e, full[i].step # sub[i].step,
                                  "full[i].step() != sub[i].step()")
           e2 == ERROR_ON_LOC_MSG(e1, full[i].start > sub[i].start,
                                  "full[i].start() > sub[i].start()")
           e3 == ERROR_ON_LOC_MSG(e2, full[i].end < sub[i].end,
                                  "full[i].end() < sub[i].end()")
       IN  subwindow_axes(e3, full, sub, i + 1)

error_on_invalid_subwindow_first_axis_only(full, sub) ==
  subwindow_axes(ERROR_ON_LOC_MSG(Running, ~is_valid(sub), "!sub.is_valid()"),
                 full, sub, WindowDims)

error_on_invalid_subwindow(full, sub) ==
  subwindow_axes(ERROR_ON_LOC_MSG(Running, ~is_valid(sub), "!sub.is_valid()"),
                 full, sub, 1)

Call_error_on_invalid_subwindow ==
  /\ status = "idle"
  /\ \E full \in FullWindows, sub \in SubWindows :
       LET e == error_on_invalid_subwindow(full, sub) IN
       /\ fn' = "error_on_invalid_subwindow"
       /\ args' = [NoArgs EXCEPT !.windows = <<full, sub>>]
       /\ status' = Finish(e)
       /\ trace' = e.trace
       /\ ret' = FALSE

----------------------------------------------------------------------------
(* The caller *)

Init ==
  /\ fn = "none"
  /\ args = NoArgs
  /\ status = "idle"
  /\ trace = <<>>
  /\ ret = FALSE

\* Control is back in the caller, which may invoke the next validator.
\* A reported failure or a fault ends the run.
Return ==
  /\ status = "returned"
  /\ fn' = "none"
  /\ args' = NoArgs
  /\ status' = "idle"
  /\ trace' = <<>>
  /\ ret' = FALSE

Next ==
  \/ Call_have_different_dimensions
  \/ Call_error_on_nullptr
  \/ Call_error_on_mismatching_shapes
  \/ Call_error_on_mismatching_shapes_default
  \/ Call_error_on_mismatching_data_types
  \/ Call_error_on_mismatching_fixed_point
  \/ Call_error_on_mismatching_fixed_point_position
  \/ Call_error_on_format_not_in
  \/ Call_error_on_data_type_not_in
  \/ Call_error_on_data_type_channel_not_in
  \/ Call_error_on_value_not_representable_in_fixed_point
  \/ Call_error_on_invalid_subwindow
  \/ Return

Spec == Init /\ [][Next]_vars

----------------------------------------------------------------------------
(* Properties *)

Reports == {i \in 1..Len(trace) : trace[i][1] = "report"}
Reported(msg) ==
  /\ status = "reported"
  /\ Len(trace) >= 1
  /\ trace[Len(trace)] = <<"report", 0, msg>>
NullPointerFailures == {"ptr == nullptr", "tensor == nullptr", "object == nullptr"}
Operand(k) == args.tensors[k][1]
AllNonNull == Len(args.tensors) >= 1 /\ ~HasNull(args.tensors)
DiffersFrom(a, b, upper_dim) ==
  \E i \in 0..(num_max_dimensions - 1) : i >= upper_dim /\ a[i + 1] # b[i + 1]

\* C1: have_different_dimensions(dim1, dim2, upper_dim) returns true exactly
\* when dim1 and dim2 differ on some axis i with upper_dim <= i <
\* num_max_dimensions; axes below upper_dim have no influence, and the result
\* is false when upper_dim >= num_max_dimensions.
C1_HaveDifferentDimensions ==
  fn = "have_different_dimensions" =>
    /\ ret = DiffersFrom(args.dims[1], args.dims[2], args.upper_dim)
    /\ (args.upper_dim >= num_max_dimensions => ret = FALSE)

C1_Witness ==
  /\ fn = "have_different_dimensions"
  /\ args.upper_dim = 1
  /\ args.dims[1][1] # args.dims[2][1]
  /\ ret = FALSE

\* C2: each of error_on_mismatching_shapes, error_on_mismatching_data_types,
\* error_on_mismatching_fixed_point and
\* error_on_mismatching_fixed_point_position, given an operand list with a
\* null pointer in it, reports a null-pointer failure and nothing else, and
\* reads no operand's metadata before it.
C2_NullReportedFirst ==
  (/\ fn \in {"error_on_mismatching_shapes", "error_on_mismatching_shapes_default",
              "error_on_mismatching_data_types", "error_on_mismatching_fixed_point",
              "error_on_mismatching_fixed_point_position"}
   /\ HasNull(args.tensors))
  => /\ status = "reported"
     /\ Len(trace) = 1
     /\ trace[1][1] = "report"
     /\ trace[1][3] \in NullPointerFailures

\* C3: for non-null tensors t1..tn, error_on_mismatching_shapes reports
\* "Tensors have different shapes" exactly when some tk, k >= 2, differs from
\* t1 on an axis >= upper_dim (0 for the overload without upper_dim), and
\* returns otherwise; equal shapes pass for every upper_dim.
C3_MismatchingShapes ==
  (/\ fn \in {"error_on_mismatching_shapes", "error_on_mismatching_shapes_default"}
   /\ AllNonNull)
  => LET mismatch ==
           \E k \in 2..Len(args.tensors) :
             DiffersFrom(Operand(1).tensor_shape, Operand(k).tensor_shape,
                         args.upper_dim)
     IN  /\ Reported("Tensors have different shapes") <=> mismatch
         /\ ~mismatch => status = "returned"

C3_Witness ==
  /\ fn = "error_on_mismatching_shapes"
  /\ AllNonNull
  /\ Len(args.tensors) = 3
  /\ args.upper_dim = 1
  /\ Operand(2).tensor_shape = Operand(1).tensor_shape
  /\ Operand(3).tensor_shape[1] = Operand(1).tensor_shape[1]
  /\ Operand(3).tensor_shape[2] # Operand(1).tensor_shape[2]
  /\ Reported("Tensors have different shapes")

\* C4: a validator reports at most once and the report ends it; the failure
\* reported is that of the first failing check in the order of the code:
\* error_on_mismatching_fixed_point reports the data-type mismatch before the
\* position mismatch, error_on_format_not_in and error_on_data_type_not_in
\* report null, then unknown, then not-in-set, and
\* error_on_data_type_channel_not_in reports a data-type failure before the
\* channel-count failure, without reading the channel count.
C4_FirstFailingCheck ==
  /\ Cardinality(Reports) <= 1
  /\ \A i \in Reports : i = Len(trace)
  /\ status = "reported" <=> Reports # {}
  /\ (/\ fn = "error_on_mismatching_fixed_point"
      /\ AllNonNull
      /\ Operand(1).data_type \in {"QS8", "QS16"}
      /\ \E k \in 2..Len(args.tensors) :
            Operand(k).data_type # Operand(1).data_type)
     => Reported("Tensors have different fixed point data types")
  /\ (/\ fn \in {"error_on_format_not_in", "error_on_data_type_not_in",
                 "error_on_data_type_channel_not_in"}
      /\ args.tensors[1] = nullptr)
     => /\ Len(trace) = 1
        /\ trace[1][3] \in NullPointerFailures
  /\ (fn = "error_on_format_not_in" /\ AllNonNull /\ Operand(1).format = "UNKNOWN")
     => Reported("object_format == Format::UNKNOWN")
  /\ (/\ fn \in {"error_on_data_type_not_in", "error_on_data_type_channel_not_in"}
      /\ AllNonNull
      /\ Operand(1).data_type = "UNKNOWN")
     => Reported("tensor_dt == DataType::UNKNOWN")
  /\ (/\ fn = "error_on_data_type_channel_not_in"
      /\ AllNonNull
      /\ Operand(1).data_type # "UNKNOWN"
      /\ Operand(1).data_type # args.first
      /\ \A i \in 1..Len(args.further) : args.further[i] # Operand(1).data_type)
     => /\ Reported("ITensor data type %s not supported by this kernel")
        /\ \A i \in 1..Len(trace) : trace[i][3] # "num_channels"

C4_Witness ==
  /\ fn = "error_on_mismatching_fixed_point"
  /\ AllNonNull
  /\ Operand(1).data_type = "QS8"
  /\ Operand(2).data_type = "QS8"
  /\ Operand(2).fixed_point_position # Operand(1).fixed_point_position
  /\ Len(args.tensors) = 3
  /\ Operand(3).data_type = "QS16"
  /\ Reported("Tensors have different fixed point data types")

\* C5: when the first operand's data type is neither QS8 nor QS16,
\* error_on_mismatching_fixed_point returns without a report and reads no
\* metadata of any other operand, whatever the other operands are.
C5_FixedPointShortCircuit ==
  (/\ fn = "error_on_mismatching_fixed_point"
   /\ args.tensors[1] # nullptr
   /\ Operand(1).data_type \notin {"QS8", "QS16"})
  => /\ status = "returned"
     /\ \A i \in 1..Len(trace) : trace[i][1] = "read" /\ trace[i][2] = 1

C5_Witness ==
  /\ fn = "error_on_mismatching_fixed_point"
  /\ AllNonNull
  /\ Operand(1).data_type = "F32"
  /\ Operand(2).data_type = "QS8"
  /\ Operand(2).fixed_point_position # Operand(1).fixed_point_position
  /\ status = "returned"

\* C6: when the first operand's data type is QS8 or QS16,
\* error_on_mismatching_fixed_point reports exactly when some other operand
\* differs from the first in data type or in fixed-point position, and
\* returns otherwise.
C6_FixedPointMismatch ==
  (/\ fn = "error_on_mismatching_fixed_point"
   /\ AllNonNull
   /\ Operand(1).data_type \in {"QS8", "QS16"})
  => LET mismatch ==
           \E k \in 2..Len(args.tensors) :
             \/ Operand(k).data_type # Operand(1).data_type
             \/ Operand(k).fixed_point_position # Operand(1).fixed_point_position
     IN  /\ status = "reported" <=> mismatch
         /\ ~mismatch => status = "returned"

C6_Witness ==
  /\ fn = "error_on_mismatching_fixed_point"
  /\ AllNonNull
  /\ Len(args.tensors) = 3
  /\ \A k \in 1..3 : Operand(k).data_type = "QS16"
  /\ Operand(2).fixed_point_position = Operand(1).fixed_point_position
  /\ Operand(3).fixed_point_position # Operand(1).fixed_point_position
  /\ Reported("Tensors have different fixed point positions")

\* C7: for a non-null object, error_on_format_not_in and
\* error_on_data_type_not_in report exactly when the object's format (data
\* type) is UNKNOWN or equals neither the first candidate nor any further
\* candidate; UNKNOWN fails even when it is listed, and a value equal to the
\* first candidate that is not UNKNOWN passes.
C7_NotIn ==
  (fn \in {"error_on_format_not_in", "error_on_data_type_not_in"} /\ AllNonNull)
  => LET value == IF fn = "error_on_format_not_in"
                  THEN Operand(1).format ELSE Operand(1).data_type
         listed == \/ value = args.first
                   \/ \E i \in 1..Len(args.further) : args.further[i] = value
     IN  /\ status = "reported" <=> (value = "UNKNOWN" \/ ~listed)
         /\ (value # "UNKNOWN" /\ value = args.first) => status = "returned"
         /\ status \in {"reported", "returned"}

C7_Witness ==
  /\ fn = "error_on_format_not_in"
  /\ AllNonNull
  /\ Operand(1).format = "UNKNOWN"
  /\ args.first = "UNKNOWN"
  /\ status = "reported"

\* The real comparison value > q / 2^p for a float value and naturals q >= 1, p.
ExceedsRatio(value, q, p) ==
  IF value.neg \/ value.m = 0 THEN FALSE
  ELSE LET s == value.e + p
       IN  IF s >= 0
           THEN IF s > 30 THEN TRUE ELSE value.m > q \div Pow2(s)
           ELSE IF -s > 30 THEN FALSE
           ELSE \/ value.m \div Pow2(-s) > q
                \/ (value.m \div Pow2(-s) = q /\ value.m % Pow2(-s) > 0)

\* (1 << (8*b - 1)) - 1
SignedMax(b) == (Pow2(8 * b - 2) - 1) + Pow2(8 * b - 2)

\* C8: for a tensor of element size b in {1, 2, 4} and fixed-point position
\* p, error_on_value_not_representable_in_fixed_point reports exactly when
\* value > ((1 << (8*b - 1)) - 1) / 2^p, and the bound computed as
\* 0xFFFFFFFF >> ((4 - b)*8 + 1) is (1 << (8*b - 1)) - 1.
C8_RepresentableIff ==
  (fn = "error_on_value_not_representable_in_fixed_point" /\ AllNonNull)
  => LET b == element_size_from_data_type(Operand(1).data_type)
         q == q_max_range_of(Operand(1).data_type)
     IN  /\ q[1] * 65536 + q[2] = SignedMax(b)
         /\ status = "reported"
              <=> ExceedsRatio(args.value, SignedMax(b),
                               Operand(1).fixed_point_position)

\* C9: error_on_nullptr reports exactly when some pointer of the list is
\* null; it tests the pointers in argument order up to the first null one,
\* reports for it and tests none after it; it returns when none is null.
C9_Nullptr ==
  fn = "error_on_nullptr" =>
    LET n == Len(args.tensors)
        nulls == {i \in 1..n : args.tensors[i] = nullptr}
    IN  /\ status = "reported" <=> nulls # {}
        /\ nulls = {} =>
             /\ status = "returned"
             /\ trace = [i \in 1..n |-> <<"test", i, "nullptr">>]
        /\ \A k \in nulls :
             (\A j \in nulls : k <= j) =>
               trace = [i \in 1..(k + 1) |->
                          IF i <= k THEN <<"test", i, "nullptr">>
                          ELSE <<"report", 0, "ptr == nullptr">>]

C9_Witness ==
  /\ fn = "error_on_nullptr"
  /\ Len(args.tensors) >= 3
  /\ args.tensors[1] # nullptr
  /\ args.tensors[2] = nullptr
  /\ args.tensors[3] = nullptr
  /\ status = "reported"
  /\ Len(trace) = 3

\* C10: for non-null tensors, error_on_mismatching_data_types reports exactly
\* when some tk, k >= 2, has a data type other than t1's, and
\* error_on_mismatching_fixed_point_position reports exactly when some tk,
\* k >= 2, has a fixed-point position other than t1's, whatever the data
\* types are.
C10_MismatchingTypesAndPositions ==
  /\ (fn = "error_on_mismatching_data_types" /\ AllNonNull)
     => LET mismatch == \E k \in 2..Len(args.tensors) :
                          Operand(k).data_type # Operand(1).data_type
        IN  /\ Reported("Tensors have different data types") <=> mismatch
            /\ ~mismatch => status = "returned"
  /\ (fn = "error_on_mismatching_fixed_point_position" /\ AllNonNull)
     => LET mismatch == \E k \in 2..Len(args.tensors) :
                          Operand(k).fixed_point_position
                            # Operand(1).fixed_point_position
        IN  /\ Reported("Tensors have different fixed-point positions") <=> mismatch
            /\ ~mismatch => status = "returned"

C10_Witness ==
  /\ fn = "error_on_mismatching_fixed_point_position"
  /\ AllNonNull
  /\ Len(args.tensors) = 3
  /\ \A k \in 1..3 : Operand(k).data_type = "F32"
  /\ Operand(2).fixed_point_position = Operand(1).fixed_point_position
  /\ Operand(3).fixed_point_position # Operand(1).fixed_point_position
  /\ Reported("Tensors have different fixed-point positions")

\* C11: have_different_dimensions is irreflexive and symmetric: it returns
\* false for (a, a, u), and the value returned for (a, b, u) is the value it
\* gives for (b, a, u), for every starting axis u.
C11_IrreflexiveSymmetric ==
  fn = "have_different_dimensions" =>
    /\ (args.dims[1] = args.dims[2] => ret = FALSE)
    /\ ret = have_different_dimensions(args.dims[2], args.dims[1], args.upper_dim)

C11_Witness ==
  /\ fn = "have_different_dimensions"
  /\ args.upper_dim = 1
  /\ args.dims[1][2] < args.dims[2][2]
  /\ args.dims[1][3] = args.dims[2][3]
  /\ ret = TRUE

\* A window whose first axis is the given one and whose other axes are the
\* default axis.
OneAxisWindow(d) == [i \in 1..WindowDims |-> IF i = 1 THEN d ELSE DefaultDimension]

\* C12: error_on_invalid_subwindow(full, sub) passes exactly when sub is a
\* valid window, has on every axis the step of full, and lies on every axis
\* within full's [start, end); with full (0,10,1), sub (2,8,1) passes, sub
\* (2,12,1) fails and sub (2,8,2) fails.
C12_InvalidSubwindow ==
  fn = "error_on_invalid_subwindow" =>
    LET full == args.windows[1]
        sub  == args.windows[2]
        contained ==
          \A i \in 1..WindowDims :
            /\ sub[i].step = full[i].step
            /\ full[i].start <= sub[i].start
            /\ sub[i].end <= full[i].end
    IN  /\ status = "returned" <=> (is_valid(sub) /\ contained)
        /\ status \in {"returned", "reported"}
        /\ full = OneAxisWindow(Dimension(0, 10, 1)) =>
             /\ sub = OneAxisWindow(Dimension(2, 8, 1)) => status = "returned"
             /\ sub = OneAxisWindow(Dimension(2, 12, 1)) => status = "reported"
             /\ sub = OneAxisWindow(Dimension(2, 8, 2)) => status = "reported"

C12_Witness ==
  /\ fn = "error_on_invalid_subwindow"
  /\ args.windows[1][1] = Dimension(0, 10, 1)
  /\ args.windows[2][1] = Dimension(2, 8, 1)
  /\ args.windows[1][WindowDims] = Dimension(0, 10, 2)
  /\ args.windows[2][WindowDims] = Dimension(2, 12, 2)
  /\ is_valid(args.windows[2])
  /\ Reported("full[i].end() < sub[i].end()")

\* C13: for a non-null tensor error_on_data_type_channel_not_in passes
\* exactly when error_on_data_type_not_in passes for the same tensor and
\* candidates and the tensor's channel count equals num_channels; the channel
\* count is read only after the data-type check, its null check included,
\* has passed.
C13_DataTypeChannelNotIn ==
  fn = "error_on_data_type_channel_not_in" =>
    LET tensor == args.tensors[1]
        type_check == error_on_data_type_not_in(tensor, args.first, args.further)
        channel_reads == {i \in 1..Len(trace) : trace[i][3] = "num_channels"}
    IN  /\ tensor # nullptr =>
             (status = "returned"
                <=> /\ type_check.status = "running"
                    /\ Operand(1).num_channels = args.num_channels)
        /\ tensor = nullptr => (status = "reported" /\ channel_reads = {})
        /\ \A i \in channel_reads :
             /\ type_check.status = "running"
             /\ Len(type_check.trace) < i
             /\ \A j \in 1..Len(type_check.trace) : trace[j] = type_check.trace[j]

C13_Witness ==
  /\ fn = "error_on_data_type_channel_not_in"
  /\ AllNonNull
  /\ Operand(1).data_type = "QS8"
  /\ args.first = "U8"
  /\ Len(args.further) = 2
  /\ args.further[2] = "QS8"
  /\ Operand(1).num_channels # args.num_channels
  /\ Reported("Number of channels %d. Required number of channels %d")

C15_FirstOperandSuffices ==
  LET n == Len(args.tensors)
      Permuted(perm) == [i \in 1..n |-> args.tensors[perm[i]]]
  IN  /\ (/\ fn \in {"error_on_mismatching_shapes",
                     "error_on_mismatching_shapes_default"}
          /\ AllNonNull)
         => /\ status = "returned" =>
                 \A j, k \in 1..n :
                   ~DiffersFrom(Operand(j).tensor_shape, Operand(k).tensor_shape,
                                args.upper_dim)
            /\ \A perm \in Permutations(1..n) :
                 Finish(error_on_mismatching_shapes(args.upper_dim, Permuted(perm),
                                                    NoUndefined)) = status
      /\ (fn = "error_on_mismatching_data_types" /\ AllNonNull)
         => /\ status = "returned" =>
                 \A j, k \in 1..n : Operand(j).data_type = Operand(k).data_type
            /\ \A perm \in Permutations(1..n) :
                 Finish(error_on_mismatching_data_types(Permuted(perm),
                                                        NoUndefined)) = status

C15_Witness ==
  /\ fn = "error_on_mismatching_data_types"
  /\ AllNonNull
  /\ Len(args.tensors) = 3
  /\ Operand(2).data_type = Operand(1).data_type
  /\ Operand(3).data_type # Operand(1).data_type
  /\ status = "reported"

====
